---- MODULE Spec2Model ----
(***************************************************************************)
(* Model of the to-do list web application (src/app.py) running against    *)
(* the relational schema of src/init_db.py.                                *)
(*                                                                         *)
(* State: the three relations (users, categories, todos), their SERIAL     *)
(* sequences, the database clock, one Flask session per client, the        *)
(* connections held open, and the register request that sits between its   *)
(* SELECT and its INSERT.  `last` records the most recent handler step:    *)
(* who asked, for which route, which storage fault struck, and what the    *)
(* handler answered.                                                       *)
(***************************************************************************)
EXTENDS Integers, Sequences, FiniteSets, TLC

VARIABLES users, categories, todos, seq, clock, session, pending, conn, last

vars == <<users, categories, todos, seq, clock, session, pending, conn, last>>

store == <<users, categories, todos>>

(***************************************************************************)
(* Bounds of the model.                                                    *)
(***************************************************************************)
MaxUserId == 2
MaxCategoryId == 2
MaxTodoId == 2
MaxClock == 1

Clients == {"c1", "c2"}

(***************************************************************************)
(* Python / SQL values.                                                    *)
(***************************************************************************)
None == "None"

EmptyDict == [k \in {} |-> None]

FormGet(form, key, default) ==
    IF key \in DOMAIN form THEN form[key] ELSE default

RECURSIVE lstrip(_)
lstrip(s) ==
    IF Len(s) > 0 /\ SubSeq(s, 1, 1) = " "
    THEN lstrip(SubSeq(s, 2, Len(s)))
    ELSE s

RECURSIVE rstrip(_)
rstrip(s) ==
    IF Len(s) > 0 /\ SubSeq(s, Len(s), Len(s)) = " "
    THEN rstrip(SubSeq(s, 1, Len(s) - 1))
    ELSE s

strip(s) == rstrip(lstrip(s))

generate_password_hash(password) == <<"pbkdf2:sha256", password>>

check_password_hash(pwhash, password) ==
    /\ pwhash[1] = "pbkdf2:sha256"
    /\ pwhash[2] = password

(***************************************************************************)
(* Storage faults a request can meet: none, the connection cannot be       *)
(* obtained, a statement raises, the commit raises.                        *)
(***************************************************************************)
Methods == {"GET", "POST"}

Faults == {"none", "connect", "execute", "commit"}

(***************************************************************************)
(* Sessions: the Flask session is a dict; empty when nobody is logged in.  *)
(***************************************************************************)
LoggedIn(c) == "user_id" \in DOMAIN session[c]

Idle(c) == pending[c] = <<>>

(***************************************************************************)
(* Responses: where the client is sent, the flashed (message, severity),   *)
(* the storage fault that struck, and the data handed to the template.     *)
(***************************************************************************)
NoFlash == <<"", "">>

NoView == [todos |-> <<>>, categories |-> <<>>, stats |-> EmptyDict]

Response(c, route, arg, fault, target, flash, view) ==
    [client |-> c, route |-> route, arg |-> arg, fault |-> fault,
     target |-> target, flash |-> flash, view |-> view]

(***************************************************************************)
(* conn.rollback(): the relation goes back to what it was before the       *)
(* statements of the failed transaction.                                   *)
(***************************************************************************)
RollbackMissing(before, written) == written

Rollback(before, written) == before

LoginRequired(c, route, arg, message) ==
    Response(c, route, arg, "none", "redirect:login", <<message, "error">>, NoView)

(***************************************************************************)
(* Initial state: empty relations, nobody logged in.                       *)
(***************************************************************************)
Init ==
    /\ users = {}
    /\ categories = {}
    /\ todos = {}
    /\ seq = [users |-> 1, categories |-> 1, todos |-> 1]
    /\ clock = 0
    /\ session = [c \in Clients |-> EmptyDict]
    /\ pending = [c \in Clients |-> <<>>]
    /\ conn = {}
    /\ last = Response("c1", "none", 0, "none", "none", NoFlash, NoView)

(***************************************************************************)
(* GET / : landing                                                         *)
(***************************************************************************)
landing(c) ==
    /\ Idle(c)
    /\ last' = Response(c, "landing", 0, "none",
                        IF LoggedIn(c) THEN "redirect:dashboard" ELSE "render:landing",
                        NoFlash, NoView)
    /\ UNCHANGED <<users, categories, todos, seq, clock, session, pending, conn>>

(***************************************************************************)
(* Schema constraints of the users relation.                               *)
(***************************************************************************)
UsersNotUnique(username) == TRUE

UsersUnique(username) == \A u \in users : u.username # username

UserInsertOK(username) ==
    /\ Len(username) <= 50
    /\ UsersUnique(username)

SelectUser(username) == {u \in users : u.username = username}

(***************************************************************************)
(* GET|POST /register, up to and including the existence SELECT.  The      *)
(* result is <<target, flash, fault that struck>>; target "inflight" means *)
(* the SELECT found no row and the INSERT comes next.                      *)
(***************************************************************************)
RegisterEarly(c, method, form, fault) ==
    LET username == strip(FormGet(form, "username", ""))
        password == strip(FormGet(form, "password", ""))
    IN  IF LoggedIn(c) THEN <<"redirect:dashboard", NoFlash, "none">>
        ELSE IF method # "POST" THEN <<"render:register", NoFlash, "none">>
        ELSE IF username = "" \/ password = ""
             THEN <<"render:register", <<"Username and password are required", "error">>, "none">>
        ELSE IF Len(username) < 3
             THEN <<"render:register", <<"Username must be at least 3 characters long", "error">>, "none">>
        ELSE IF Len(password) < 6
             THEN <<"render:register", <<"Password must be at least 6 characters long", "error">>, "none">>
        ELSE IF fault = "connect"
             THEN <<"render:register", <<"Database connection error. Please try again later.", "error">>, fault>>
        ELSE IF fault = "execute"
             THEN <<"render:register", <<"Registration failed. Please try again.", "error">>, fault>>
        ELSE IF SelectUser(username) # {}
             THEN <<"render:register", <<"Username already exists. Please choose another.", "error">>, "none">>
        ELSE <<"inflight", NoFlash, "none">>

register(c, method, form, fault) ==
    LET username == strip(FormGet(form, "username", ""))
        password == strip(FormGet(form, "password", ""))
        out == RegisterEarly(c, method, form, fault)
    IN  /\ Idle(c)
        /\ fault \in {"none", "connect", "execute"}
        /\ last' = Response(c, "register", 0, out[3], out[1], out[2], NoView)
        /\ IF out[1] = "inflight"
           THEN /\ pending' = [pending EXCEPT ![c] = <<[username |-> username, password |-> password]>>]
                /\ conn' = conn \cup {c}
           ELSE /\ pending' = pending
                /\ conn' = conn \ {c}
        /\ UNCHANGED <<users, categories, todos, seq, clock, session>>

(***************************************************************************)
(* POST /register, the INSERT and COMMIT after the existence SELECT found  *)
(* no row.  Other requests may run between the SELECT and this step.       *)
(***************************************************************************)
register_insert(c, fault) ==
    LET written == users \cup {[id |-> seq.users,
                                username |-> pending[c][1].username,
                                password |-> generate_password_hash(pending[c][1].password)]}
    IN  /\ ~Idle(c)
        /\ fault \in {"none", "execute", "commit"}
        /\ seq.users <= MaxUserId
        /\ IF fault = "execute" \/ ~UserInsertOK(pending[c][1].username)
           THEN /\ users' = users
                /\ seq' = seq
                /\ last' = Response(c, "register", 0, fault, "render:register",
                                    <<"Registration failed. Please try again.", "error">>, NoView)
           ELSE IF fault = "commit"
           THEN /\ users' = Rollback(users, written)
                /\ seq' = seq
                /\ last' = Response(c, "register", 0, fault, "render:register",
                                    <<"Registration failed. Please try again.", "error">>, NoView)
           ELSE /\ users' = written
                /\ seq' = [seq EXCEPT !.users = @ + 1]
                /\ last' = Response(c, "register", 0, "none", "redirect:login",
                                    <<"Registration successful! Please log in.", "success">>, NoView)
        /\ pending' = [pending EXCEPT ![c] = <<>>]
        /\ conn' = conn \ {c}
        /\ UNCHANGED <<categories, todos, clock, session>>

(***************************************************************************)
(* GET|POST /login                                                         *)
(***************************************************************************)
LoginMatchAnyPassword(form) ==
    SelectUser(strip(FormGet(form, "username", "")))

LoginMatch(form) ==
    LET username == strip(FormGet(form, "username", ""))
        password == strip(FormGet(form, "password", ""))
    IN  {u \in SelectUser(username) : check_password_hash(u.password, password)}

Welcome(username) == <<"Welcome back, " \o username \o "!", "success">>

LoginOutcome(c, method, form, fault) ==
    LET username == strip(FormGet(form, "username", ""))
        password == strip(FormGet(form, "password", ""))
    IN  IF LoggedIn(c) THEN <<"redirect:dashboard", NoFlash, "none">>
        ELSE IF method # "POST" THEN <<"render:login", NoFlash, "none">>
        ELSE IF username = "" \/ password = ""
             THEN <<"render:login", <<"Please enter both username and password", "error">>, "none">>
        ELSE IF fault = "connect"
             THEN <<"render:login", <<"Database connection error. Please try again later.", "error">>, fault>>
        ELSE IF fault = "execute"
             THEN <<"render:login", <<"An error occurred. Please try again.", "error">>, fault>>
        ELSE IF LoginMatch(form) # {}
             THEN <<"redirect:dashboard", Welcome(username), "none">>
        ELSE <<"render:login", <<"Invalid username or password", "error">>, "none">>

login(c, method, form, fault) ==
    LET out == LoginOutcome(c, method, form, fault)
    IN  /\ Idle(c)
        /\ fault \in {"none", "connect", "execute"}
        /\ last' = Response(c, "login", 0, out[3], out[1], out[2], NoView)
        /\ IF out[2][2] = "success"
           THEN \E u \in LoginMatch(form) :
                    session' = [session EXCEPT ![c] = [user_id |-> u.id, username |-> u.username]]
           ELSE session' = session
        /\ conn' = conn \ {c}
        /\ UNCHANGED <<users, categories, todos, seq, clock, pending>>

(***************************************************************************)
(* GET /logout                                                             *)
(***************************************************************************)
logout(c) ==
    LET username == FormGet(session[c], "username", "User")
    IN  /\ Idle(c)
        /\ session' = [session EXCEPT ![c] = EmptyDict]
        /\ last' = Response(c, "logout", 0, "none", "redirect:landing",
                            <<"Goodbye " \o username \o "! You have been logged out successfully.", "success">>,
                            NoView)
        /\ UNCHANGED <<users, categories, todos, seq, clock, pending, conn>>

(***************************************************************************)
(* Text conversions the database applies to the strings psycopg2 sends.    *)
(***************************************************************************)
Digits == "0123456789"

DigitValue(ch) == (CHOOSE i \in 1..Len(Digits) : SubSeq(Digits, i, i) = ch) - 1

IsDigits(s) ==
    /\ Len(s) > 0
    /\ \A i \in 1..Len(s) : \E j \in 1..Len(Digits) : SubSeq(s, i, i) = SubSeq(Digits, j, j)

RECURSIVE ParseInt(_)
ParseInt(s) ==
    IF Len(s) = 0 THEN 0
    ELSE 10 * ParseInt(SubSeq(s, 1, Len(s) - 1)) + DigitValue(SubSeq(s, Len(s), Len(s)))

IsDate(s) ==
    /\ Len(s) = 10
    /\ SubSeq(s, 5, 5) = "-"
    /\ SubSeq(s, 8, 8) = "-"
    /\ IsDigits(SubSeq(s, 1, 4))
    /\ IsDigits(SubSeq(s, 6, 7))
    /\ IsDigits(SubSeq(s, 9, 10))
    /\ ParseInt(SubSeq(s, 6, 7)) \in 1..12
    /\ ParseInt(SubSeq(s, 9, 10)) \in 1..31

(***************************************************************************)
(* Schema constraints of the todos and categories relations.               *)
(* An integer column that is NULL is <<>>, one that holds k is <<k>>.      *)
(***************************************************************************)
PriorityEnum == {"low", "medium", "high"}

StatusEnum == {"pending", "in_progress", "completed"}

PriorityCheck(priority) ==
    /\ Len(priority) <= 10
    /\ priority \in PriorityEnum

StatusFits(status) == Len(status) <= 20

StatusUnchecked(status) == TRUE

StatusCheck(status) == status \in StatusEnum

CategoryRefOK(category_id) ==
    \/ category_id = None
    \/ /\ IsDigits(category_id)
       /\ \E k \in categories : k.id = ParseInt(category_id)

DueDateOK(due_date) == due_date = None \/ IsDate(due_date)

TodoInsertOK(title, priority, category_id, due_date) ==
    /\ Len(title) <= 255
    /\ PriorityCheck(priority)
    /\ CategoryRefOK(category_id)
    /\ DueDateOK(due_date)

CategoriesUnique(user_id, name) ==
    \A k \in categories : ~(k.user_id = user_id /\ k.name = name)

CategoryInsertOK(user_id, name, color) ==
    /\ Len(name) <= 100
    /\ Len(color) <= 7
    /\ CategoriesUnique(user_id, name)

(***************************************************************************)
(* POST /add                                                               *)
(***************************************************************************)
NewTodo(user_id, title, description, priority, category_id, due_date, now) ==
    [id |-> seq.todos,
     user_id |-> user_id,
     category_id |-> IF category_id = None THEN <<>> ELSE <<ParseInt(category_id)>>,
     title |-> title,
     description |-> description,
     priority |-> priority,
     status |-> "pending",
     due_date |-> due_date,
     created_at |-> now,
     updated_at |-> now]

AddPriorityDefaultLow(form) == FormGet(form, "priority", "low")

AddPriority(form) == FormGet(form, "priority", "medium")

add_todo(c, form, fault, dt) ==
    LET title == strip(FormGet(form, "title", ""))
        description == strip(FormGet(form, "description", ""))
        priority == AddPriority(form)
        category_raw == FormGet(form, "category", None)
        due_raw == FormGet(form, "due_date", None)
        category_id == IF category_raw = "" THEN None ELSE category_raw
        due_date == IF due_raw = "" THEN None ELSE due_raw
        written == todos \cup {NewTodo(session[c].user_id, title, description,
                                       priority, category_id, due_date, clock + dt)}
    IN  /\ Idle(c)
        /\ seq.todos <= MaxTodoId
        /\ clock + dt <= MaxClock
        /\ conn' = conn \ {c}
        /\ UNCHANGED <<users, categories, session, pending>>
        /\ IF ~LoggedIn(c)
           THEN /\ last' = LoginRequired(c, "add", 0, "Please log in first")
                /\ UNCHANGED <<todos, seq, clock>>
           ELSE IF title = ""
           THEN /\ last' = Response(c, "add", 0, "none", "redirect:dashboard",
                                    <<"Task title is required", "error">>, NoView)
                /\ UNCHANGED <<todos, seq, clock>>
           ELSE IF fault = "connect"
           THEN /\ last' = Response(c, "add", 0, fault, "redirect:dashboard",
                                    <<"Database connection error", "error">>, NoView)
                /\ UNCHANGED <<todos, seq, clock>>
           ELSE IF fault = "execute" \/ ~TodoInsertOK(title, priority, category_id, due_date)
           THEN /\ last' = Response(c, "add", 0, fault, "redirect:dashboard",
                                    <<"Failed to add task", "error">>, NoView)
                /\ UNCHANGED <<todos, seq, clock>>
           ELSE IF fault = "commit"
           THEN /\ last' = Response(c, "add", 0, fault, "redirect:dashboard",
                                    <<"Failed to add task", "error">>, NoView)
                /\ todos' = Rollback(todos, written)
                /\ UNCHANGED <<seq, clock>>
           ELSE /\ todos' = written
                /\ seq' = [seq EXCEPT !.todos = @ + 1]
                /\ clock' = clock + dt
                /\ last' = Response(c, "add", 0, "none", "redirect:dashboard",
                                    <<"Task added successfully!", "success">>, NoView)

(***************************************************************************)
(* POST /update/<int:todo_id>                                              *)
(***************************************************************************)
UpdateWhereIdOnly(todo_id, user_id) ==
    {t \in todos : t.id = todo_id}

UpdateWhere(todo_id, user_id) ==
    {t \in todos : t.id = todo_id /\ t.user_id = user_id}

update_todo_status(c, todo_id, form, fault, dt) ==
    LET status == FormGet(form, "status", "pending")
        rows == UpdateWhere(todo_id, session[c].user_id)
        written == (todos \ rows) \cup
                    {[t EXCEPT !.status = status, !.updated_at = clock + dt] : t \in rows}
    IN  /\ Idle(c)
        /\ clock + dt <= MaxClock
        /\ conn' = conn \ {c}
        /\ UNCHANGED <<users, categories, seq, session, pending>>
        /\ IF ~LoggedIn(c)
           THEN /\ last' = LoginRequired(c, "update", todo_id, "Please log in first")
                /\ UNCHANGED <<todos, clock>>
           ELSE IF fault = "connect"
           THEN /\ last' = Response(c, "update", todo_id, fault, "redirect:dashboard",
                                    <<"Database connection error", "error">>, NoView)
                /\ UNCHANGED <<todos, clock>>
           ELSE IF fault = "execute" \/ ~StatusFits(status) \/ (rows # {} /\ ~StatusCheck(status))
           THEN /\ last' = Response(c, "update", todo_id, fault, "redirect:dashboard",
                                    <<"Failed to update task", "error">>, NoView)
                /\ UNCHANGED <<todos, clock>>
           ELSE IF fault = "commit"
           THEN /\ last' = Response(c, "update", todo_id, fault, "redirect:dashboard",
                                    <<"Failed to update task", "error">>, NoView)
                /\ todos' = Rollback(todos, written)
                /\ UNCHANGED clock
           ELSE /\ todos' = written
                /\ clock' = clock + dt
                /\ last' = Response(c, "update", todo_id, "none", "redirect:dashboard",
                                    IF Cardinality(rows) > 0
                                    THEN <<"Task status updated!", "success">>
                                    ELSE <<"Task not found", "error">>, NoView)

(***************************************************************************)
(* POST /delete/<int:todo_id>                                              *)
(***************************************************************************)
DeleteWhere(todo_id, user_id) ==
    {t \in todos : t.id = todo_id /\ t.user_id = user_id}

delete_todo_ungated(c, todo_id, fault) ==
    LET rows == {t \in todos : t.id = todo_id}
    IN  /\ Idle(c)
        /\ conn' = conn \ {c}
        /\ UNCHANGED <<users, categories, seq, clock, session, pending>>
        /\ IF fault = "connect"
           THEN /\ last' = Response(c, "delete", todo_id, fault, "redirect:dashboard",
                                    <<"Database connection error", "error">>, NoView)
                /\ UNCHANGED todos
           ELSE IF fault # "none"
           THEN /\ last' = Response(c, "delete", todo_id, fault, "redirect:dashboard",
                                    <<"Failed to delete task", "error">>, NoView)
                /\ UNCHANGED todos
           ELSE /\ todos' = todos \ rows
                /\ last' = Response(c, "delete", todo_id, "none", "redirect:dashboard",
                                    IF Cardinality(rows) > 0
                                    THEN <<"Task deleted successfully!", "success">>
                                    ELSE <<"Task not found", "error">>, NoView)

delete_todo(c, todo_id, fault) ==
    LET rows == DeleteWhere(todo_id, session[c].user_id)
    IN  /\ Idle(c)
        /\ conn' = conn \ {c}
        /\ UNCHANGED <<users, categories, seq, clock, session, pending>>
        /\ IF ~LoggedIn(c)
           THEN /\ last' = LoginRequired(c, "delete", todo_id, "Please log in first")
                /\ UNCHANGED todos
           ELSE IF fault = "connect"
           THEN /\ last' = Response(c, "delete", todo_id, fault, "redirect:dashboard",
                                    <<"Database connection error", "error">>, NoView)
                /\ UNCHANGED todos
           ELSE IF fault = "execute"
           THEN /\ last' = Response(c, "delete", todo_id, fault, "redirect:dashboard",
                                    <<"Failed to delete task", "error">>, NoView)
                /\ UNCHANGED todos
           ELSE IF fault = "commit"
           THEN /\ last' = Response(c, "delete", todo_id, fault, "redirect:dashboard",
                                    <<"Failed to delete task", "error">>, NoView)
                /\ todos' = Rollback(todos, todos \ rows)
           ELSE /\ todos' = todos \ rows
                /\ last' = Response(c, "delete", todo_id, "none", "redirect:dashboard",
                                    IF Cardinality(rows) > 0
                                    THEN <<"Task deleted successfully!", "success">>
                                    ELSE <<"Task not found", "error">>, NoView)

(***************************************************************************)
(* POST /add_category                                                      *)
(***************************************************************************)
AddCategoryFlash(outcome) ==
    CASE outcome = "ok" -> <<"Category added successfully!", "success">>
      [] outcome = "no_name" -> <<"Category name is required", "error">>
      [] outcome = "no_connection" -> <<"Database connection error", "error">>
      [] outcome = "statement_failed" -> <<"Failed to add category", "error">>
      [] outcome = "commit_failed" -> <<"Failed to add category", "error">>
      [] outcome = "duplicate" -> <<"Failed to add category", "error">>

AddCategoryOutcome(c, form, fault) ==
    LET name == strip(FormGet(form, "name", ""))
        color == FormGet(form, "color", "#667eea")
    IN  IF name = "" THEN "no_name"
        ELSE IF fault = "connect" THEN "no_connection"
        ELSE IF fault = "execute" THEN "statement_failed"
        ELSE IF ~CategoriesUnique(session[c].user_id, name) THEN "duplicate"
        ELSE IF ~CategoryInsertOK(session[c].user_id, name, color) THEN "statement_failed"
        ELSE IF fault = "commit" THEN "commit_failed"
        ELSE "ok"

add_category(c, form, fault) ==
    LET name == strip(FormGet(form, "name", ""))
        color == FormGet(form, "color", "#667eea")
        outcome == AddCategoryOutcome(c, form, fault)
        written == categories \cup
                    {[id |-> seq.categories, user_id |-> session[c].user_id,
                      name |-> name, color |-> color]}
    IN  /\ Idle(c)
        /\ seq.categories <= MaxCategoryId
        /\ conn' = conn \ {c}
        /\ UNCHANGED <<users, todos, clock, session, pending>>
        /\ IF ~LoggedIn(c)
           THEN /\ last' = LoginRequired(c, "add_category", 0, "Please log in first")
                /\ UNCHANGED <<categories, seq>>
           ELSE /\ last' = Response(c, "add_category", 0,
                                    IF outcome \in {"no_connection", "statement_failed", "commit_failed"}
                                    THEN fault ELSE "none",
                                    "redirect:dashboard", AddCategoryFlash(outcome), NoView)
                /\ IF outcome = "ok"
                   THEN /\ categories' = written
                        /\ seq' = [seq EXCEPT !.categories = @ + 1]
                   ELSE IF outcome = "commit_failed"
                   THEN /\ categories' = Rollback(categories, written)
                        /\ seq' = seq
                   ELSE UNCHANGED <<categories, seq>>

(***************************************************************************)
(* GET /dashboard: the three SELECTs.                                      *)
(***************************************************************************)
Alphabet == " #0123456789ABCDEFGHIJKLMNOPQRSTUVWXYZabcdefghijklmnopqrstuvwxyz"

Ord(ch) == CHOOSE i \in 1..Len(Alphabet) : SubSeq(Alphabet, i, i) = ch

RECURSIVE StrLess(_, _)
StrLess(a, b) ==
    IF Len(b) = 0 THEN FALSE
    ELSE IF Len(a) = 0 THEN TRUE
    ELSE IF SubSeq(a, 1, 1) = SubSeq(b, 1, 1)
         THEN StrLess(SubSeq(a, 2, Len(a)), SubSeq(b, 2, Len(b)))
         ELSE Ord(SubSeq(a, 1, 1)) < Ord(SubSeq(b, 1, 1))

Orderings(S) ==
    {f \in [1..Cardinality(S) -> S] : \A i, j \in 1..Cardinality(S) : i # j => f[i] # f[j]}

SelectCategories(user_id) ==
    LET rows == {k \in categories : k.user_id = user_id}
    IN  {f \in Orderings(rows) :
            \A i, j \in 1..Cardinality(rows) : i < j => ~StrLess(f[j].name, f[i].name)}

StatusRankAsListed(status) ==
    CASE status = "pending" -> 1
      [] status = "in_progress" -> 2
      [] status = "completed" -> 3
      [] OTHER -> 4

StatusRank(status) ==
    CASE status = "in_progress" -> 1
      [] status = "pending" -> 2
      [] status = "completed" -> 3
      [] OTHER -> 4

PriorityRank(priority) ==
    CASE priority = "high" -> 1
      [] priority = "medium" -> 2
      [] priority = "low" -> 3
      [] OTHER -> 4

OrderedBefore(a, b) ==
    \/ StatusRank(a.status) < StatusRank(b.status)
    \/ /\ StatusRank(a.status) = StatusRank(b.status)
       /\ PriorityRank(a.priority) < PriorityRank(b.priority)
    \/ /\ StatusRank(a.status) = StatusRank(b.status)
       /\ PriorityRank(a.priority) = PriorityRank(b.priority)
       /\ a.created_at > b.created_at

TodoJoinCategory(user_id) ==
    LET mine == {t \in todos : t.user_id = user_id}
        matches(t) == {k \in categories : <<k.id>> = t.category_id}
        row(t, name, color) ==
            [id |-> t.id, title |-> t.title, description |-> t.description,
             priority |-> t.priority, status |-> t.status, name |-> name,
             color |-> color, due_date |-> t.due_date, created_at |-> t.created_at]
    IN  UNION {IF matches(t) = {}
               THEN {row(t, None, None)}
               ELSE {row(t, k.name, k.color) : k \in matches(t)} : t \in mine}

SelectTodos(user_id) ==
    LET rows == TodoJoinCategory(user_id)
    IN  {f \in Orderings(rows) :
            \A i, j \in 1..Cardinality(rows) : i < j => ~OrderedBefore(f[j], f[i])}

CountWhere(user_id, status) ==
    Cardinality({t \in todos : t.user_id = user_id /\ t.status = status})

SelectStats(user_id) ==
    LET mine == {t \in todos : t.user_id = user_id}
        sum(status) == IF mine = {} THEN <<>> ELSE <<CountWhere(user_id, status)>>
        orzero(x) == IF x = <<>> \/ x = <<0>> THEN 0 ELSE x[1]
    IN  [total |-> orzero(<<Cardinality(mine)>>),
         completed |-> orzero(sum("completed")),
         pending |-> orzero(sum("pending")),
         in_progress |-> orzero(sum("in_progress"))]

dashboard(c, fault) ==
    /\ Idle(c)
    /\ fault \in {"none", "connect", "execute"}
    /\ conn' = conn \ {c}
    /\ UNCHANGED <<users, categories, todos, seq, clock, session, pending>>
    /\ IF ~LoggedIn(c)
       THEN last' = LoginRequired(c, "dashboard", 0, "Please log in to access the dashboard")
       ELSE IF fault = "connect"
       THEN last' = Response(c, "dashboard", 0, fault, "render:dashboard",
                             <<"Database connection error", "error">>, NoView)
       ELSE IF fault = "execute"
       THEN last' = Response(c, "dashboard", 0, fault, "render:dashboard",
                             <<"Error loading dashboard", "error">>, NoView)
       ELSE \E ks \in SelectCategories(session[c].user_id), ts \in SelectTodos(session[c].user_id) :
                last' = Response(c, "dashboard", 0, "none", "render:dashboard", NoFlash,
                                 [todos |-> ts, categories |-> ks,
                                  stats |-> SelectStats(session[c].user_id)])

(***************************************************************************)
(* Request inputs.                                                         *)
(***************************************************************************)
RegisterForms ==
    {[username |-> u, password |-> p] :
        u \in {"al", " ali ", "bob"}, p \in {"short", "secret "}} \cup {EmptyDict}

LoginForms ==
    {[username |-> u, password |-> p] :
        u \in {"ali", "bob "}, p \in {"secret", "hunter2"}} \cup {EmptyDict}

(***************************************************************************)
(* Two browsers on the account routes, starting from an empty database.    *)
(***************************************************************************)
NextAuth ==
    \/ \E c \in Clients : landing(c)
    \/ \E c \in Clients, form \in RegisterForms, f \in Faults : register(c, "POST", form, f)
    \/ \E c \in Clients : register(c, "GET", EmptyDict, "none")
    \/ \E c \in Clients, f \in Faults : register_insert(c, f)
    \/ \E c \in Clients, form \in LoginForms, f \in Faults : login(c, "POST", form, f)
    \/ \E c \in Clients : login(c, "GET", EmptyDict, "none")
    \/ \E c \in Clients : logout(c)
    \/ \E c \in Clients, f \in Faults : dashboard(c, f)

SpecAuth == Init /\ [][NextAuth]_vars

(***************************************************************************)
(* Two browsers of two registered users on the task and category routes.   *)
(***************************************************************************)
InitTasks ==
    /\ users = {[id |-> 1, username |-> "ali", password |-> generate_password_hash("secret")],
                [id |-> 2, username |-> "bob", password |-> generate_password_hash("secret")]}
    /\ categories = {}
    /\ todos = {}
    /\ seq = [users |-> 3, categories |-> 1, todos |-> 1]
    /\ clock = 0
    /\ session = [c \in Clients |-> EmptyDict]
    /\ pending = [c \in Clients |-> <<>>]
    /\ conn = {}
    /\ last = Response("c1", "none", 0, "none", "none", NoFlash, NoView)

BaseTodo == [title |-> " Buy milk "]

TodoIds == 1..(MaxTodoId + 1)

OwnerLoginForms == {[username |-> "ali", password |-> "secret"],
                    [username |-> "bob ", password |-> "secret"]}

(***************************************************************************)
(* SpecGate: every route, one form each, no storage faults; the two        *)
(* browsers log in and out while the relations fill up.                    *)
(***************************************************************************)
NextGate ==
    \/ \E c \in Clients, form \in OwnerLoginForms : login(c, "POST", form, "none")
    \/ \E c \in Clients : logout(c)
    \/ \E c \in Clients : dashboard(c, "none")
    \/ \E c \in Clients : add_todo(c, BaseTodo, "none", 0)
    \/ \E c \in Clients, id \in TodoIds : update_todo_status(c, id, [status |-> "completed"], "none", 0)
    \/ \E c \in Clients, id \in TodoIds : delete_todo(c, id, "none")
    \/ \E c \in Clients : add_category(c, [name |-> "Work"], "none")

SpecGate == InitTasks /\ [][NextGate]_vars

(***************************************************************************)
(* SpecOwner: one browser, used by two users in turn, adding, updating and *)
(* deleting tasks, with storage faults and a moving clock.  The clock only *)
(* matters to an update that is applied, so only those let time pass.      *)
(***************************************************************************)
OwnerStatusForms ==
    {[status |-> st] : st \in {"completed", "completed, at long last"}}

OneClient == {"c1"}

OwnerFaults == {"none", "connect", "execute"}

OwnerTodoIds == 1..MaxTodoId

NextOwner ==
    \/ \E c \in OneClient, form \in OwnerLoginForms : login(c, "POST", form, "none")
    \/ \E c \in OneClient : logout(c)
    \/ \E c \in OneClient : add_todo(c, BaseTodo, "none", 0)
    \/ \E c \in OneClient, id \in OwnerTodoIds, form \in OwnerStatusForms, f \in OwnerFaults :
            update_todo_status(c, id, form, f, 0)
    \/ \E c \in OneClient, id \in OwnerTodoIds, form \in OwnerStatusForms :
            update_todo_status(c, id, form, "none", 1)
    \/ \E c \in OneClient, id \in OwnerTodoIds, f \in OwnerFaults : delete_todo(c, id, f)

SpecOwner == InitTasks /\ [][NextOwner]_vars

(***************************************************************************)
(* SpecCategory: one browser, used by two users in turn, adding categories *)
(* and tasks that name a category, and viewing the dashboard.              *)
(***************************************************************************)
CategoryForms ==
    {[name |-> n] : n \in {"", " Work ", "Home"}}
        \cup {[name |-> "Work", color |-> k] : k \in {"#ff0000", "#ff00000"}}

CategoryAddForms ==
    {BaseTodo @@ [category |-> k] : k \in {"", "1", "2", "7", "x"}}

NextCategory ==
    \/ \E c \in OneClient, form \in OwnerLoginForms : login(c, "POST", form, "none")
    \/ \E c \in OneClient : logout(c)
    \/ \E c \in OneClient, form \in CategoryForms, f \in Faults : add_category(c, form, f)
    \/ \E c \in OneClient, form \in CategoryAddForms : add_todo(c, form, "none", 0)
    \/ \E c \in OneClient : dashboard(c, "none")

SpecCategory == InitTasks /\ [][NextCategory]_vars

(***************************************************************************)
(* SpecSort: the dashboard queries applied to every store of up to         *)
(* MaxTodoId tasks of the two users (any priority and status, creation     *)
(* times in id order), viewed by either user.                              *)
(***************************************************************************)
StoredTodo(id, user_id, priority, status, created_at) ==
    [id |-> id, user_id |-> user_id, category_id |-> <<>>, title |-> "Buy milk",
     description |-> "", priority |-> priority, status |-> status, due_date |-> None,
     created_at |-> created_at, updated_at |-> created_at]

InitSort ==
    /\ users = {[id |-> 1, username |-> "ali", password |-> generate_password_hash("secret")],
                [id |-> 2, username |-> "bob", password |-> generate_password_hash("secret")]}
    /\ categories = {}
    /\ \E n \in 0..MaxTodoId :
        /\ seq = [users |-> 3, categories |-> 1, todos |-> n + 1]
        /\ \E owner \in [1..n -> {1, 2}], priority \in [1..n -> PriorityEnum],
              status \in [1..n -> StatusEnum], created \in [1..n -> 0..MaxClock] :
            /\ \A i, j \in 1..n : i < j => created[i] <= created[j]
            /\ todos = {StoredTodo(i, owner[i], priority[i], status[i], created[i]) : i \in 1..n}
            /\ clock = IF n = 0 THEN 0 ELSE created[n]
    /\ \E u \in users :
            session = [c \in Clients |->
                        IF c = "c1" THEN [user_id |-> u.id, username |-> u.username]
                        ELSE EmptyDict]
    /\ pending = [c \in Clients |-> <<>>]
    /\ conn = {}
    /\ last = Response("c1", "none", 0, "none", "none", NoFlash, NoView)

NextSort == \E c \in OneClient, f \in {"none", "connect", "execute"} : dashboard(c, f)

SpecSort == InitSort /\ [][NextSort]_vars

(***************************************************************************)
(* SpecTodo: one browser, used by two users in turn, adding tasks with and *)
(* without a priority and moving them through the statuses, with forms     *)
(* that carry values outside the enumerations.                             *)
(***************************************************************************)
TodoAddForms ==
    {BaseTodo, [title |-> "  "], EmptyDict, BaseTodo @@ [status |-> "completed"]}
        \cup {BaseTodo @@ [priority |-> p] : p \in {"high", "urgent", ""}}

TodoStatusForms ==
    {[status |-> st] : st \in {"in_progress", "completed", "done", "completed, at long last"}}
        \cup {EmptyDict}

TodoFaults == {"none", "execute"}

NextTodo ==
    \/ \E c \in OneClient, form \in OwnerLoginForms : login(c, "POST", form, "none")
    \/ \E c \in OneClient : logout(c)
    \/ \E c \in OneClient, form \in TodoAddForms, f \in TodoFaults : add_todo(c, form, f, 0)
    \/ \E c \in OneClient, id \in TodoIds, form \in TodoStatusForms, f \in TodoFaults :
            update_todo_status(c, id, form, f, 0)
    \/ \E c \in OneClient : dashboard(c, "none")

SpecTodo == InitTasks /\ [][NextTodo]_vars

(***************************************************************************)
(* SpecFault: one browser going through the whole application, from        *)
(* registration on, while the connection, any statement and any commit may *)
(* fail.                                                                   *)
(***************************************************************************)
FaultCredentials == {[username |-> " ali ", password |-> "secret "]}

NextFault ==
    \/ \E c \in OneClient, form \in FaultCredentials, f \in Faults : register(c, "POST", form, f)
    \/ \E c \in OneClient, f \in Faults : register_insert(c, f)
    \/ \E c \in OneClient, form \in FaultCredentials, f \in Faults : login(c, "POST", form, f)
    \/ \E c \in OneClient : logout(c)
    \/ \E c \in OneClient, f \in Faults : add_todo(c, BaseTodo, f, 0)
    \/ \E c \in OneClient, id \in TodoIds, f \in Faults, dt \in {0, 1} :
            update_todo_status(c, id, [status |-> "completed"], f, dt)
    \/ \E c \in OneClient, id \in TodoIds, f \in Faults : delete_todo(c, id, f)
    \/ \E c \in OneClient, f \in Faults : add_category(c, [name |-> "Work"], f)

SpecFault == Init /\ [][NextFault]_vars

(***************************************************************************)
(* Spec: the whole application, two browsers, every form and every fault.  *)
(* The specifications above are its restrictions to fewer forms, faults    *)
(* and browsers; the relations and sessions of InitTasks and InitSort are  *)
(* ones it reaches by registering, logging in and adding tasks.            *)
(***************************************************************************)
AllAddForms ==
    TodoAddForms \cup CategoryAddForms
        \cup {BaseTodo @@ [due_date |-> d] : d \in {"", "2026-12-31", "soon"}}
        \cup {BaseTodo @@ [priority |-> "low", description |-> " 2 litres "]}

AllStatusForms ==
    TodoStatusForms \cup {[status |-> "pending"]}

Next ==
    \/ \E c \in Clients : landing(c)
    \/ \E c \in Clients, m \in Methods, form \in RegisterForms, f \in Faults : register(c, m, form, f)
    \/ \E c \in Clients, f \in Faults : register_insert(c, f)
    \/ \E c \in Clients, m \in Methods, form \in LoginForms, f \in Faults : login(c, m, form, f)
    \/ \E c \in Clients : logout(c)
    \/ \E c \in Clients, f \in Faults : dashboard(c, f)
    \/ \E c \in Clients, form \in AllAddForms, f \in Faults, dt \in {0, 1} : add_todo(c, form, f, dt)
    \/ \E c \in Clients, id \in TodoIds, form \in AllStatusForms, f \in Faults, dt \in {0, 1} :
            update_todo_status(c, id, form, f, dt)
    \/ \E c \in Clients, id \in TodoIds, f \in Faults : delete_todo(c, id, f)
    \/ \E c \in Clients, form \in CategoryForms, f \in Faults : add_category(c, form, f)

Spec == Init /\ [][Next]_vars

(***************************************************************************)
(* C1.  A request to dashboard, add task, update task status, delete task  *)
(* or add category from a client whose session is empty is answered by a   *)
(* redirect to login carrying a message, and leaves users, categories and  *)
(* todos exactly as they were, whatever requests came before.              *)
(***************************************************************************)
GatedRoutes == {"dashboard", "add", "update", "delete", "add_category"}

C1_NoSessionNoAccess ==
    [][(last'.route \in GatedRoutes /\ ~LoggedIn(last'.client)) =>
            /\ last'.target = "redirect:login"
            /\ last'.flash[1] # ""
            /\ users' = users
            /\ categories' = categories
            /\ todos' = todos]_vars

C1_Witness ==
    /\ last.route = "delete"
    /\ last.target = "redirect:login"
    /\ ~LoggedIn(last.client)
    /\ \E t \in todos : t.id = last.arg
    /\ categories # {}

(***************************************************************************)
(* C5.  No two user rows share a username, however register requests       *)
(* interleave; a register request (from a client with no session) for a    *)
(* username that is already stored is answered with an error message and   *)
(* adds no row, whether it is caught by the existence SELECT or, after a   *)
(* concurrent request slipped in between, by the INSERT.                   *)
(***************************************************************************)
C5_UsernamesUnique ==
    /\ [](\A u1, u2 \in users : u1.username = u2.username => u1 = u2)
    /\ [][/\ \A c \in Clients :
                (~Idle(c) /\ pending'[c] = <<>> /\ SelectUser(pending[c][1].username) # {}) =>
                    /\ last'.route = "register"
                    /\ last'.flash[2] = "error"
                    /\ users' = users
          /\ (last'.route = "register" /\ ~LoggedIn(last'.client)) =>
              \A form \in RegisterForms, f \in Faults :
                (/\ SelectUser(strip(FormGet(form, "username", ""))) # {}
                 /\ register(last'.client, "POST", form, f)) =>
                    /\ last'.flash[2] = "error"
                    /\ last'.target = "render:register"
                    /\ users' = users]_vars

C5_Witness ==
    /\ last.route = "register"
    /\ last.fault = "none"
    /\ last.flash = <<"Registration failed. Please try again.", "error">>
    /\ Cardinality(users) = 1

(***************************************************************************)
(* C6.  A client's session changes only in two ways: a login POST from a   *)
(* client without a session, whose stripped username and password match a  *)
(* stored user row, sets it to that row's id and username; a logout        *)
(* empties it.  Register never touches a session, a login that does not    *)
(* answer with the welcome message leaves it alone, a session always names *)
(* a stored user, and a client whose session is empty is sent to login by  *)
(* the dashboard.                                                          *)
(***************************************************************************)
C6_SessionLifecycle ==
    /\ [](\A c \in Clients : LoggedIn(c) =>
            \E u \in users : session[c] = [user_id |-> u.id, username |-> u.username])
    /\ [][/\ \A c \in Clients : session'[c] # session[c] =>
                /\ last'.client = c
                /\ \/ /\ last'.route = "login"
                      /\ last'.flash[2] = "success"
                      /\ session[c] = EmptyDict
                   \/ /\ last'.route = "logout"
                      /\ session'[c] = EmptyDict
          /\ \A c \in Clients : session'[c] # session[c] =>
              \A m \in Methods, form \in LoginForms, f \in Faults :
                login(c, m, form, f) =>
                    /\ m = "POST"
                    /\ f = "none"
                    /\ \E u \in users :
                          /\ u.username = strip(FormGet(form, "username", ""))
                          /\ u.password = generate_password_hash(strip(FormGet(form, "password", "")))
                          /\ session'[c] = [user_id |-> u.id, username |-> u.username]
          /\ last'.route = "register" => session' = session
          /\ (last'.route = "login" /\ last'.flash[2] # "success") => session' = session
          /\ last'.route = "logout" => session'[last'.client] = EmptyDict
          /\ (last'.route = "dashboard" /\ session[last'.client] = EmptyDict) =>
                last'.target = "redirect:login"]_vars

C6_Witness ==
    /\ last.route = "login"
    /\ last.flash[2] = "success"
    /\ LoggedIn(last.client)
    /\ \E c \in Clients : ~LoggedIn(c)
    /\ Cardinality(users) = 2

(***************************************************************************)
(* C2 as stated.  An update-status or delete request from a session of     *)
(* user A naming a task of another user B always reports 'Task not found'  *)
(* and leaves the task as it was.                                          *)
(***************************************************************************)
CrossUser(t) ==
    /\ last'.route \in {"update", "delete"}
    /\ last'.arg = t.id
    /\ LoggedIn(last'.client)
    /\ session[last'.client].user_id # t.user_id

C2_AlwaysNotFound ==
    [][\A t \in todos : CrossUser(t) =>
            /\ last'.flash = <<"Task not found", "error">>
            /\ t \in todos']_vars

(***************************************************************************)
(* C2 as amended.  Such a request leaves the task present with every field *)
(* unaltered and is answered by a redirect to the dashboard with an error  *)
(* message: 'Task not found' when the connection was obtained and the      *)
(* statement and its commit ran (no fault struck and, for an update, the   *)
(* submitted status fits the column), the storage error message otherwise. *)
(* A task is changed or removed only by an update or delete request naming *)
(* its id from a session of its owning user.                               *)
(***************************************************************************)
C2_OwnerOnly ==
    [][/\ \A t \in todos : CrossUser(t) =>
            /\ t \in todos'
            /\ last'.target = "redirect:dashboard"
            /\ last'.flash \in {<<"Task not found", "error">>,
                               <<"Database connection error", "error">>,
                               <<"Failed to update task", "error">>,
                               <<"Failed to delete task", "error">>}
            /\ (last'.route = "delete" /\ last'.fault = "none") =>
                    last'.flash = <<"Task not found", "error">>
            /\ last'.route = "update" =>
                    \A form \in OwnerStatusForms, dt \in {0, 1} :
                        (/\ Len(form.status) <= 20
                         /\ update_todo_status(last'.client, t.id, form, "none", dt)) =>
                            last'.flash = <<"Task not found", "error">>
       /\ \A t \in todos : t \notin todos' =>
            /\ last'.route \in {"update", "delete"}
            /\ last'.arg = t.id
            /\ LoggedIn(last'.client)
            /\ session[last'.client].user_id = t.user_id]_vars

C2_Witness ==
    /\ last.route = "update"
    /\ last.flash = <<"Task not found", "error">>
    /\ \E t \in todos :
          /\ t.id = last.arg
          /\ t.user_id # session[last.client].user_id
          /\ t.updated_at < clock

(***************************************************************************)
(* C3.  Every stored task whose category reference is not NULL references  *)
(* a category of the task's own user, and the task rows a dashboard shows  *)
(* carry only names and colors of categories of the viewing user.          *)
(***************************************************************************)
C3_CategoryOfOwnUser ==
    /\ \A t \in todos : t.category_id # <<>> =>
            \E k \in categories : <<k.id>> = t.category_id /\ k.user_id = t.user_id
    /\ (last.route = "dashboard" /\ LoggedIn(last.client)) =>
            \A i \in 1..Len(last.view.todos) :
                last.view.todos[i].name # None =>
                    \E k \in categories :
                        /\ k.user_id = session[last.client].user_id
                        /\ k.name = last.view.todos[i].name
                        /\ k.color = last.view.todos[i].color

(***************************************************************************)
(* C9.  No user has two categories of the same name; an add-category       *)
(* request for a (user, name) pair that is already stored adds no row,     *)
(* changes no category, and is answered with a message that differs from   *)
(* the messages the route gives for a storage failure.                     *)
(***************************************************************************)
C9_ConflictIsDistinct ==
    /\ [](\A k1, k2 \in categories :
            (k1.user_id = k2.user_id /\ k1.name = k2.name) => k1 = k2)
    /\ [][\A c \in OneClient, form \in CategoryForms :
            (/\ add_category(c, form, "none")
             /\ LoggedIn(c)
             /\ ~CategoriesUnique(session[c].user_id, strip(FormGet(form, "name", "")))) =>
                /\ categories' = categories
                /\ last'.flash[2] = "error"
                /\ last'.flash # AddCategoryFlash("no_connection")
                /\ last'.flash # AddCategoryFlash("statement_failed")
                /\ last'.flash # AddCategoryFlash("commit_failed")]_vars

(***************************************************************************)
(* C8.  The task list a dashboard renders holds exactly the tasks of the   *)
(* viewing user, each once and with its own fields, ordered by status rank *)
(* (in_progress 1, pending 2, completed 3), then priority rank (high 1,    *)
(* medium 2, low 3), then creation time, newest first.                     *)
(***************************************************************************)
C8_Rank(row) ==
    <<CASE row.status = "in_progress" -> 1 [] row.status = "pending" -> 2
        [] row.status = "completed" -> 3,
      CASE row.priority = "high" -> 1 [] row.priority = "medium" -> 2
        [] row.priority = "low" -> 3,
      0 - row.created_at>>

C8_NotAfter(a, b) ==
    \/ a[1] < b[1]
    \/ a[1] = b[1] /\ a[2] < b[2]
    \/ a[1] = b[1] /\ a[2] = b[2] /\ a[3] <= b[3]

C8_DashboardOrder ==
    (last.route = "dashboard" /\ last.target = "render:dashboard" /\ last.fault = "none") =>
        LET v == last.view.todos
            mine == {t \in todos : t.user_id = session[last.client].user_id}
        IN  /\ Len(v) = Cardinality(mine)
            /\ \A t \in mine : \E i \in 1..Len(v) :
                    /\ v[i].id = t.id
                    /\ v[i].title = t.title
                    /\ v[i].priority = t.priority
                    /\ v[i].status = t.status
                    /\ v[i].created_at = t.created_at
            /\ \A i, j \in 1..Len(v) : i < j => C8_NotAfter(C8_Rank(v[i]), C8_Rank(v[j]))

C8_Witness ==
    /\ last.route = "dashboard"
    /\ Len(last.view.todos) = 2
    /\ last.view.todos[1].status = "in_progress"
    /\ last.view.todos[1].priority = "low"
    /\ last.view.todos[2].status = "pending"
    /\ last.view.todos[2].priority = "high"
    /\ last.view.todos[1].created_at < last.view.todos[2].created_at

(***************************************************************************)
(* C4.  Every stored task has a status among pending, in_progress,         *)
(* completed and a priority among low, medium, high; an update-status      *)
(* request whose status is outside the enumeration, and an add-task        *)
(* request whose priority is outside it, is answered with an error and     *)
(* leaves the todos relation unchanged.                                    *)
(***************************************************************************)
C4_EnumerationsHold ==
    /\ [](\A t \in todos :
            /\ t.status \in {"pending", "in_progress", "completed"}
            /\ t.priority \in {"low", "medium", "high"})
    /\ [][/\ last'.route = "update" =>
                \A form \in TodoStatusForms, f \in TodoFaults :
                    (/\ FormGet(form, "status", "pending") \notin {"pending", "in_progress", "completed"}
                     /\ update_todo_status(last'.client, last'.arg, form, f, 0)) =>
                        /\ todos' = todos
                        /\ last'.flash[2] = "error"
          /\ last'.route = "add" =>
                \A form \in TodoAddForms, f \in TodoFaults :
                    (/\ FormGet(form, "priority", "medium") \notin {"low", "medium", "high"}
                     /\ add_todo(last'.client, form, f, 0)) =>
                        /\ todos' = todos
                        /\ last'.flash[2] = "error"]_vars

C4_Witness ==
    /\ last.route = "update"
    /\ last.fault = "none"
    /\ last.flash = <<"Failed to update task", "error">>
    /\ \E t \in todos : t.id = last.arg /\ t.user_id = session[last.client].user_id

(***************************************************************************)
(* C7.  An add-task request that is answered 'Task added successfully!'    *)
(* adds exactly one task: owned by the session's user, titled with the     *)
(* stripped title, status pending whatever the form carries, priority      *)
(* medium when the form carries none.  The task is in that user's task     *)
(* list; the user's stats total and pending grow by one, completed and     *)
(* in_progress stay; every other user's task list and stats stay.  A       *)
(* request whose title is empty after stripping adds nothing.              *)
(***************************************************************************)
C7_AddTask ==
    [][\A c \in OneClient, mine \in {u.id : u \in users} :
        (last'.route = "add" /\ last'.client = c /\ LoggedIn(c) /\ session[c].user_id = mine) =>
            /\ \A form \in TodoAddForms, f \in TodoFaults :
                (strip(FormGet(form, "title", "")) = "" /\ add_todo(c, form, f, 0)) =>
                    todos' = todos
            /\ last'.flash = <<"Task added successfully!", "success">> =>
                /\ \E t \in todos' :
                    /\ t \notin todos
                    /\ todos' = todos \cup {t}
                    /\ \A old \in todos : old.id # t.id
                    /\ t.user_id = mine
                    /\ t.title # ""
                    /\ t.status = "pending"
                    /\ \A form \in TodoAddForms :
                        add_todo(c, form, "none", 0) =>
                            /\ t.title = strip(form.title)
                            /\ "priority" \notin DOMAIN form => t.priority = "medium"
                    /\ \A ts \in SelectTodos(mine)' :
                            \E i \in 1..Len(ts) : ts[i].id = t.id /\ ts[i].status = "pending"
                /\ SelectStats(mine)'.total = SelectStats(mine).total + 1
                /\ SelectStats(mine)'.pending = SelectStats(mine).pending + 1
                /\ SelectStats(mine)'.completed = SelectStats(mine).completed
                /\ SelectStats(mine)'.in_progress = SelectStats(mine).in_progress
                /\ \A u \in users : u.id # mine =>
                        /\ SelectStats(u.id)' = SelectStats(u.id)
                        /\ SelectTodos(u.id)' = SelectTodos(u.id)]_vars

C7_Witness ==
    /\ last.route = "add"
    /\ last.flash = <<"Task added successfully!", "success">>
    /\ \E t \in todos :
        /\ t.id = seq.todos - 1
        /\ t.user_id = session[last.client].user_id
        /\ t.status = "pending"
        /\ t.priority = "medium"
        /\ \E o \in todos : o.user_id # t.user_id /\ o.status = "completed"

(***************************************************************************)
(* C10.  When a register, add task, update task status, delete task or     *)
(* add category request meets a storage fault (no connection, a failing    *)
(* statement, a failing commit), users, categories and todos are after the *)
(* request what they were before it, every session is unchanged, the       *)
(* client holds no open connection, and the answer is the route's usual    *)
(* form or redirect with an error message.                                 *)
(***************************************************************************)
C10_FaultLeavesNoTrace ==
    [][(/\ last'.fault # "none"
        /\ last'.route \in {"register", "add", "update", "delete", "add_category"}) =>
            /\ users' = users
            /\ categories' = categories
            /\ todos' = todos
            /\ session' = session
            /\ last'.client \notin conn'
            /\ pending'[last'.client] = <<>>
            /\ last'.flash[2] = "error"
            /\ last'.flash[1] # ""
            /\ last'.target = IF last'.route = "register"
                              THEN "render:register" ELSE "redirect:dashboard"]_vars

C10_Witness ==
    /\ last.route = "update"
    /\ last.fault = "commit"
    /\ last.flash = <<"Failed to update task", "error">>
    /\ \E t \in todos :
        /\ t.id = last.arg
        /\ t.user_id = session[last.client].user_id
        /\ t.status = "pending"
    /\ categories # {}

====
